---- MODULE Spec2Model ----
(***************************************************************************)
(* The Telegram file bot: the upload directory, the REST routes that       *)
(* change it, and the /webhook/telegram handler, in its two iterations:     *)
(*   "server"  src/server.js                                               *)
(*   "index"   src/unnamed/part_000 (index.js, from line 91)               *)
(* Strings are sequences of one-character strings, so that trim,           *)
(* toLowerCase, includes, startsWith, substring and split are computed.    *)
(***************************************************************************)
EXTENDS Integers, Sequences, FiniteSets, TLC

\* ------------------------------------------------------------------ bounds
\* Largest number of files the uploads directory holds.
MaxFiles == 2

\* --------------------------------------------------------- program constants
\* server.js: limits: { fileSize: 16 * 1024 * 1024 }
SERVER_FILE_LIMIT == 16777216
\* index.js: const TELEGRAM_FILE_LIMIT = 50 * 1024 * 1024
TELEGRAM_FILE_LIMIT == 52428800

\* ------------------------------------------------------------------ strings
Upper == <<"A","B","C","D","E","F","G","H","I","J","K","L","M",
           "N","O","P","Q","R","S","T","U","V","W","X","Y","Z">>
Lowerc == <<"a","b","c","d","e","f","g","h","i","j","k","l","m",
            "n","o","p","q","r","s","t","u","v","w","x","y","z">>

\* The lower-case letter of each upper-case letter
LowerTable ==
    [c \in {Upper[k] : k \in 1..26} |-> Lowerc[CHOOSE k \in 1..26 : Upper[k] = c]]

LowerChar(c) == IF c \in DOMAIN LowerTable THEN LowerTable[c] ELSE c

\* String.prototype.toLowerCase
toLowerCase(s) == [i \in 1..Len(s) |-> LowerChar(s[i])]

\* String.prototype.includes
includes(s, sub) ==
    \E i \in 0..(Len(s) - Len(sub)) : SubSeq(s, i + 1, i + Len(sub)) = sub

\* String.prototype.startsWith
startsWith(s, p) == Len(p) <= Len(s) /\ SubSeq(s, 1, Len(p)) = p

\* String.prototype.substring(n)
substring(s, n) == SubSeq(s, n + 1, Len(s))

RECURSIVE trimStart(_)
trimStart(s) == IF s # <<>> /\ Head(s) = " " THEN trimStart(Tail(s)) ELSE s

RECURSIVE trimEnd(_)
trimEnd(s) ==
    IF s # <<>> /\ s[Len(s)] = " " THEN trimEnd(SubSeq(s, 1, Len(s) - 1)) ELSE s

\* String.prototype.trim
trim(s) == trimEnd(trimStart(s))

\* file.split('-').slice(1).join('-'): what follows the first '-', or ''
\* when the name holds no '-'.
displayName(file) ==
    IF \E i \in 1..Len(file) : file[i] = "-"
    THEN LET i == CHOOSE j \in 1..Len(file) :
                      file[j] = "-" /\ \A k \in 1..(j - 1) : file[k] # "-"
         IN  SubSeq(file, i + 1, Len(file))
    ELSE <<>>

DigitChars == <<"0","1","2","3","4","5","6","7","8","9">>

\* Number-to-string of a template literal: ${timestamp}
RECURSIVE numberToString(_)
numberToString(n) ==
    IF n < 10 THEN <<DigitChars[n + 1]>>
    ELSE numberToString(n \div 10) \o <<DigitChars[(n % 10) + 1]>>

\* `${Date.now()}-${file.originalname}`
storageName(timestamp, originalname) ==
    numberToString(timestamp) \o <<"-">> \o originalname

\* ------------------------------------------------------------ command table
START  == <<"/","s","t","a","r","t">>
HELP   == <<"/","h","e","l","p">>
LIST   == <<"/","l","i","s","t">>
FILES  == <<"/","f","i","l","e","s">>
COUNT  == <<"/","c","o","u","n","t">>
SEARCH == <<"/","s","e","a","r","c","h"," ">>
GET    == <<"/","g","e","t"," ">>
\* `${message.text}` when message.text is undefined
UNDEFINED == <<"u","n","d","e","f","i","n","e","d">>

\* ------------------------------------------------------------------- inputs
\* Date.now() when multer names an upload: the wall clock, which two uploads
\* may read in the same millisecond
Timestamps == { 1, 2 }
\* file.originalname of an upload
OriginalNames == { <<"a">>, <<"B","1">> }
\* req.file.size of an upload: within both limits, above both limits
UploadSizes == { 2048, TELEGRAM_FILE_LIMIT + 1 }

\* What allowedTypes.test gives for the MIME type and for the extension of
\* an upload
FileTypes ==
    { [mimetype |-> TRUE, extname |-> TRUE],
      [mimetype |-> TRUE, extname |-> FALSE],
      [mimetype |-> FALSE, extname |-> TRUE] }

\* message.text of a webhook delivery
RawTexts ==
    { START,
      <<"/","H","E","L","P">>,
      <<" ">> \o LIST \o <<" ">>,
      FILES,
      COUNT,
      SEARCH \o <<"a">>,
      GET \o <<"a">>,
      <<"/","G","e","t"," "," ","B","1">>,
      GET \o <<"1">>,
      GET \o <<"c">>,
      GET \o <<"z">>,
      <<"/","g","e","t">>,
      <<"H","i">> }

\* req.body of a webhook delivery: no message; a message without chat; a
\* message with chat and from, with or without text.
Deliveries ==
    { [shape |-> "absent", hasText |-> FALSE, text |-> <<>>],
      [shape |-> "nochat", hasText |-> FALSE, text |-> <<>>],
      [shape |-> "message", hasText |-> FALSE, text |-> <<>>] }
    \cup { [shape |-> "message", hasText |-> TRUE, text |-> t] : t \in RawTexts }

\* req.params.filename of DELETE /api/files/:filename and the arguments
\* getFileInfo is examined on
Fragments == { <<"a">>, <<"A">>, <<"1">>, <<"b","1">>, <<"z">> }

\* What the uploads directory may hold when the process starts: it is created
\* only when absent, so files left by an earlier run or put there by hand
\* (of any size) are served too.
InitialStores ==
    { <<>>,
      << [name |-> <<"0","-","c">>, size |-> TELEGRAM_FILE_LIMIT + 1] >> }

\* -------------------------------------------------------------------- state
VARIABLES
    variant,    \* which iteration of the bot runs: "server" or "index"
    store,      \* fs.readdirSync(uploadsDir) with each file's stats.size
    apiResp,    \* the last /api request: its route and the status sent
    pc,         \* the webhook handler: "idle", "await" or "done"
    req,        \* the delivery the handler works on
    branch,     \* the branch of the dispatch chain it took
    cont,       \* the await the handler is suspended at
    fileInfo,   \* the result of getFileInfo in the /get branch
    calls,      \* the outbound calls of this delivery, in order
    responses,  \* the status codes sent for this delivery
    stream      \* fs.createReadStream(filePath) of sendDocument: what it found

vars == <<variant, store, apiResp, pc, req, branch, cont, fileInfo,
          calls, responses, stream>>
handler == <<pc, req, branch, cont, fileInfo, calls, responses, stream>>

NoFile == [found |-> FALSE, filename |-> <<>>, size |-> 0]
NoResp == [op |-> "none", status |-> 0]

Names(files) == { files[i].name : i \in 1..Len(files) }

Init ==
    /\ variant \in {"server", "index"}
    /\ store \in InitialStores
    /\ apiResp = NoResp
    /\ pc = "idle"
    /\ req = [shape |-> "absent", hasText |-> FALSE, text |-> <<>>]
    /\ branch = "none"
    /\ cont = "none"
    /\ fileInfo = NoFile
    /\ calls = <<>>
    /\ responses = <<>>
    /\ stream = "none"

\* ---------------------------------------------------------- the file store
\* The index of the last file the predicate accepts.
findLast(hits) ==
    IF \E i \in 1..Len(hits) : hits[i]
    THEN CHOOSE i \in 1..Len(hits) : hits[i] /\ \A j \in (i + 1)..Len(hits) : ~hits[j]
    ELSE 0

\* files.find(file => match(file)), given what the predicate says of each
\* file of the listing: the index of the first file it accepts, 0 when
\* files.find returns undefined.
find(hits) ==
    IF \E i \in 1..Len(hits) : hits[i]
    THEN CHOOSE i \in 1..Len(hits) : hits[i] /\ \A j \in 1..(i - 1) : ~hits[j]
    ELSE 0

\* The predicate without the toLowerCase calls.
serverMatchCaseSensitive(file, filename) ==
    includes(file, filename) \/ displayName(file) = filename

\* server.js getFileInfo: the predicate of files.find
serverMatch(file, filename) ==
    \/ includes(toLowerCase(file), toLowerCase(filename))
    \/ toLowerCase(displayName(file)) = toLowerCase(filename)

\* index.js getFileInfo: f.includes(filename)
indexMatch(file, filename) == includes(file, filename)

\* DELETE /api/files/:filename: the predicate of files.find
deleteMatch(file, filename) ==
    includes(toLowerCase(file), toLowerCase(filename))

infoOf(files, i) ==
    IF i = 0 THEN NoFile
    ELSE [found |-> TRUE, filename |-> files[i].name, size |-> files[i].size]

getFileInfoServer(files, filename) ==
    infoOf(files, find([i \in 1..Len(files) |-> serverMatch(files[i].name, filename)]))

getFileInfoIndex(files, filename) ==
    infoOf(files, find([i \in 1..Len(files) |-> indexMatch(files[i].name, filename)]))

\* fs.unlinkSync of the i-th file of the listing
unlink(files, i) == SubSeq(files, 1, i - 1) \o SubSeq(files, i + 1, Len(files))

\* A new directory entry; readdirSync promises no order, so it may show up
\* at any place of the listing.
create(files, i, f) == SubSeq(files, 1, i - 1) \o <<f>> \o SubSeq(files, i, Len(files))

\* fileFilter of server.js (index.js has none): both tests must pass
fileFilter(v, mimetype, extname) == v = "index" \/ (mimetype /\ extname)

\* limits.fileSize
fileSizeLimit(v) == IF v = "server" THEN SERVER_FILE_LIMIT ELSE TELEGRAM_FILE_LIMIT

\* multer.diskStorage: the file is written under filename(req, file, cb);
\* fs.createWriteStream replaces a file of that name.
diskStorage(files, name, size, i) ==
    IF name \in Names(files)
    THEN [k \in 1..Len(files) |->
             IF files[k].name = name THEN [name |-> name, size |-> size] ELSE files[k]]
    ELSE create(files, i, [name |-> name, size |-> size])

\* Where the written file may show up in the listing: a replaced file keeps
\* its place, a new one may take any.
places(files, name) ==
    IF name \in Names(files)
    THEN { CHOOSE k \in 1..Len(files) : files[k].name = name }
    ELSE 1..(Len(files) + 1)

\* POST /api/upload with a file part. A file the filter or the size limit
\* rejects reaches the error handler and is not kept.
UploadFile(timestamp, originalname, size, mimetype, extname) ==
    LET filename == storageName(timestamp, originalname)
        accepted == fileFilter(variant, mimetype, extname) /\ size <= fileSizeLimit(variant)
    IN  /\ filename \in Names(store) \/ Len(store) < MaxFiles
        /\ IF accepted
           THEN /\ \E i \in places(store, filename) :
                       store' = diskStorage(store, filename, size, i)
                /\ apiResp' = [op |-> "upload", status |-> 200]
           ELSE /\ store' = store
                /\ apiResp' = [op |-> "upload", status |-> 500]
        /\ UNCHANGED variant
        /\ UNCHANGED handler

\* POST /api/upload without a file part: !req.file
UploadNoFile ==
    /\ apiResp' = [op |-> "upload", status |-> 400]
    /\ UNCHANGED <<variant, store>>
    /\ UNCHANGED handler

\* DELETE /api/files/:filename (server.js only). The route takes no account of
\* a /get handler suspended between getFileInfo and sendDocument.
DeleteFile(filename) ==
    LET i == find([k \in 1..Len(store) |-> deleteMatch(store[k].name, filename)])
    IN  /\ variant = "server"
        /\ IF i = 0
           THEN /\ store' = store
                /\ apiResp' = [op |-> "delete", status |-> 404]
           ELSE /\ store' = unlink(store, i)
                /\ apiResp' = [op |-> "delete", status |-> 200]
        /\ UNCHANGED variant
        /\ UNCHANGED handler

\* ------------------------------------------------------ the webhook handler
\* The text without trim().
textOfUntrimmed(r) == IF r.hasText THEN toLowerCase(r.text) ELSE <<>>

\* const text = message.text?.trim().toLowerCase() || ''   (server.js)
\* const text = (message.text || "").trim().toLowerCase()  (index.js)
textOf(r) == IF r.hasText THEN toLowerCase(trim(r.text)) ELSE <<>>

\* `text` of each delivery
Text == [r \in Deliveries |-> textOf(r)]

\* The if / else-if chain of the handler: the branch `text` selects.
dispatch(v, text) ==
    IF text = START \/ text = HELP THEN "help"
    ELSE IF text = LIST \/ (v = "server" /\ text = FILES) THEN "list"
    ELSE IF text = COUNT THEN "count"
    ELSE IF v = "index" /\ startsWith(text, SEARCH) THEN "search"
    ELSE IF startsWith(text, GET) THEN "get"
    ELSE "unknown"

\* text.substring(5).trim()
requestedFile(text) == trim(substring(text, 5))

\* An outbound call to the messaging API, not yet settled.
Call(endpoint, kind, arg) ==
    [api |-> endpoint, kind |-> kind, arg |-> arg, outcome |-> "pending"]

\* The pending call (the last one) settles.
settle(cs, o) == [cs EXCEPT ![Len(cs)].outcome = o]

\* res.sendStatus(code): the handler ends.
sendStatus(cs, rs, code) ==
    /\ calls' = cs
    /\ responses' = Append(rs, code)
    /\ pc' = "done"
    /\ cont' = "none"

\* A call started without being awaited: the handler goes on to
\* res.sendStatus(200) while the call is in flight.
NoAwait(cs, rs, c, k) ==
    /\ calls' = Append(cs, c)
    /\ responses' = Append(rs, 200)
    /\ pc' = "done"
    /\ cont' = "none"

\* await <call>: the call starts and the handler is suspended at k.
Await(cs, rs, c, k) ==
    /\ calls' = Append(cs, c)
    /\ responses' = rs
    /\ pc' = "await"
    /\ cont' = k

\* A delivery arrives while no other is being handled.
Accept(r) ==
    /\ pc \in {"idle", "done"}
    /\ r \in Deliveries
    /\ req' = r
    /\ stream' = "none"
    /\ UNCHANGED <<variant, store, apiResp>>

\* if (!message) return res.sendStatus(200)
WebhookNoMessage(r) ==
    /\ Accept(r)
    /\ r.shape = "absent"
    /\ branch' = "none"
    /\ fileInfo' = NoFile
    /\ sendStatus(<<>>, <<>>, 200)

\* message.chat.id of a message without chat throws a TypeError inside the
\* try block: catch (err) { res.sendStatus(500) }
WebhookTypeError(r) ==
    /\ Accept(r)
    /\ r.shape = "nochat"
    /\ branch' = "none"
    /\ fileInfo' = NoFile
    /\ sendStatus(<<>>, <<>>, 500)

\* server.js: every branch that sets `reply`; then await sendMessage(chatId, reply)
ServerReply(r) ==
    LET text == Text[r]
        b == dispatch("server", text)
        info == IF b = "get" THEN getFileInfoServer(store, requestedFile(text)) ELSE NoFile
        kind == IF b = "get" THEN "notfound" ELSE b
        arg == IF b = "get" THEN requestedFile(text)
               ELSE IF b = "unknown" THEN (IF r.hasText THEN r.text ELSE UNDEFINED)
               ELSE <<>>
    IN  /\ Accept(r)
        /\ variant = "server"
        /\ r.shape = "message"
        /\ ~info.found
        /\ branch' = b
        /\ fileInfo' = info
        /\ Await(<<>>, <<>>, Call("sendMessage", kind, arg), "reply")

\* server.js: /get of a file getFileInfo resolves: await sendMessage("Sending file")
ServerGetFound(r) ==
    LET text == Text[r]
        info == getFileInfoServer(store, requestedFile(text))
    IN  /\ Accept(r)
        /\ variant = "server"
        /\ r.shape = "message"
        /\ dispatch("server", text) = "get"
        /\ info.found
        /\ branch' = "get"
        /\ fileInfo' = info
        /\ Await(<<>>, <<>>, Call("sendMessage", "sending", info.filename), "sending")

\* index.js: the branches whose axios.post is given chat_id: chatId
IndexReply(r) ==
    LET b == dispatch("index", Text[r])
    IN  /\ Accept(r)
        /\ variant = "index"
        /\ r.shape = "message"
        /\ b \in {"help", "list", "count"}
        /\ branch' = b
        /\ fileInfo' = NoFile
        /\ Await(<<>>, <<>>, Call("sendMessage", b, <<>>), "reply")

\* index.js: the branches whose request body is { chat_id, text: ... }:
\* chat_id is declared nowhere, so building the body throws a ReferenceError
\* before axios.post is called; catch (err) { res.sendStatus(500) }
IndexReferenceError(r) ==
    LET text == Text[r]
        b == dispatch("index", text)
        info == IF b = "get" THEN getFileInfoIndex(store, requestedFile(text)) ELSE NoFile
    IN  /\ Accept(r)
        /\ variant = "index"
        /\ r.shape = "message"
        /\ \/ b \in {"search", "unknown"}
           \/ b = "get" /\ ~info.found
           \/ b = "get" /\ info.found /\ info.size > TELEGRAM_FILE_LIMIT
        /\ branch' = b
        /\ fileInfo' = info
        /\ sendStatus(<<>>, <<>>, 500)

\* index.js: /get of a file within TELEGRAM_FILE_LIMIT: await axios.post(sendDocument)
IndexSendDocument(r) ==
    LET text == Text[r]
        info == getFileInfoIndex(store, requestedFile(text))
    IN  /\ Accept(r)
        /\ variant = "index"
        /\ r.shape = "message"
        /\ dispatch("index", text) = "get"
        /\ info.found
        /\ info.size <= TELEGRAM_FILE_LIMIT
        /\ branch' = "get"
        /\ fileInfo' = info
        /\ Await(<<>>, <<>>, Call("sendDocument", "document", info.filename), "reply")

Outcomes == {"ok", "fail"}

Suspended(k) ==
    /\ pc = "await"
    /\ cont = k
    /\ UNCHANGED <<variant, store, apiResp, req, branch, fileInfo>>

\* fileInfo.path with the original name in place of the storage name.
pathOfOriginalName(info) == displayName(info.filename)

\* fileInfo.path: path.join(uploadsDir, matchingFile), fixed when getFileInfo
\* returned and not resolved again after the await.
pathOf(info) == info.filename

\* fs.createReadStream(filePath): the stream opens the file the path names
\* now, or fails with ENOENT.
createReadStream(files, filePath) ==
    IF filePath \in Names(files) THEN "open" ELSE "ENOENT"

\* How the try block of sendDocument leaves before the post, if it does:
\* at `new FormData()` where the runtime binds no such global, or at
\* formData.getHeaders() where it binds the built-in one.
Throws == {"no", "FormData", "getHeaders"}

\* The awaited reply settles and its rejection is swallowed.
SettleReplySwallow(o) ==
    /\ Suspended("reply")
    /\ UNCHANGED stream
    /\ sendStatus(settle(calls, o), responses, 200)

\* The awaited reply settles. server.js: sendMessage rethrows a rejection,
\* index.js: axios.post rejects; either way the handler's catch sends 500.
SettleReply(o) ==
    /\ Suspended("reply")
    /\ UNCHANGED stream
    /\ sendStatus(settle(calls, o), responses, IF o = "ok" THEN 200 ELSE 500)

\* A catch block that logs the error and sends nothing.
fallbackSwallow(cs, rs) == sendStatus(cs, rs, 200)

\* server.js sendDocument, the catch block: the fallback link to
\* `${getBaseUrl()}/uploads/${path.basename(filePath)}`
fallback(cs, rs) ==
    Await(cs, rs, Call("sendMessage", "link", fileInfo.filename), "fallback1")

\* server.js: the "Sending file" message settles. A rejection reaches the
\* handler's catch. Otherwise sendDocument runs: its try block either throws
\* before axios.post is reached (server.js requires no form-data module:
\* FormData is whatever the runtime binds the global to, and the built-in
\* one has no getHeaders), or posts the document. Unless `new FormData()`
\* throws, fs.createReadStream(filePath) has been called by then, on the
\* store as it is when the await resumes.
SettleSending(o, threw) ==
    /\ Suspended("sending")
    /\ IF o = "fail"
       THEN /\ UNCHANGED stream
            /\ sendStatus(settle(calls, o), responses, 500)
       ELSE IF threw = "FormData"
       THEN /\ UNCHANGED stream
            /\ fallback(settle(calls, o), responses)
       ELSE IF threw = "getHeaders"
       THEN /\ stream' = createReadStream(store, pathOf(fileInfo))
            /\ fallback(settle(calls, o), responses)
       ELSE /\ stream' = createReadStream(store, pathOf(fileInfo))
            /\ Await(settle(calls, o), responses,
                     Call("sendDocument", "document", fileInfo.filename), "document")

\* A rejected sendDocument post is sent again.
SettleDocumentRetry(o) ==
    /\ Suspended("document")
    /\ o = "ok" => stream = "open"
    /\ UNCHANGED stream
    /\ IF o = "ok" THEN sendStatus(settle(calls, o), responses, 200)
       ELSE Await(settle(calls, o), responses,
                  Call("sendDocument", "document", fileInfo.filename), "document")

\* server.js: the sendDocument post settles; a rejection is caught inside
\* sendDocument, which awaits the fallback link message. A stream that failed
\* with ENOENT has nothing to upload: the post cannot succeed.
SettleDocument(o) ==
    /\ Suspended("document")
    /\ o = "ok" => stream = "open"
    /\ UNCHANGED stream
    /\ IF o = "ok" THEN sendStatus(settle(calls, o), responses, 200)
       ELSE fallback(settle(calls, o), responses)

\* server.js: the fallback of sendDocument settles; its rejection leaves
\* sendDocument and is caught by the handler's inner try, which awaits a
\* second link message, to fileInfo.url.
SettleFallback1(o) ==
    /\ Suspended("fallback1")
    /\ UNCHANGED stream
    /\ IF o = "ok" THEN sendStatus(settle(calls, o), responses, 200)
       ELSE Await(settle(calls, o), responses,
                  Call("sendMessage", "failed", fileInfo.filename), "fallback2")

\* server.js: the message of the inner catch settles; its rejection reaches
\* the handler's outer catch.
SettleFallback2(o) ==
    /\ Suspended("fallback2")
    /\ UNCHANGED stream
    /\ sendStatus(settle(calls, o), responses, IF o = "ok" THEN 200 ELSE 500)

Next ==
    \/ \E t \in Timestamps, n \in OriginalNames, z \in UploadSizes, ft \in FileTypes :
           UploadFile(t, n, z, ft.mimetype, ft.extname)
    \/ UploadNoFile
    \/ \E f \in Fragments : DeleteFile(f)
    \/ \E r \in Deliveries : WebhookNoMessage(r)
    \/ \E r \in Deliveries : WebhookTypeError(r)
    \/ \E r \in Deliveries : ServerReply(r)
    \/ \E r \in Deliveries : ServerGetFound(r)
    \/ \E r \in Deliveries : IndexReply(r)
    \/ \E r \in Deliveries : IndexReferenceError(r)
    \/ \E r \in Deliveries : IndexSendDocument(r)
    \/ \E o \in Outcomes : SettleReply(o)
    \/ \E o \in Outcomes, threw \in Throws : SettleSending(o, threw)
    \/ \E o \in Outcomes : SettleDocument(o)
    \/ \E o \in Outcomes : SettleFallback1(o)
    \/ \E o \in Outcomes : SettleFallback2(o)

Spec == Init /\ [][Next]_vars

\* ------------------------------------------------------------------ claims
Done == pc = "done"
Message == req.shape = "message"
LastCall == calls[Len(calls)]
Docs == { i \in 1..Len(calls) : calls[i].api = "sendDocument" }
Failed == { i \in 1..Len(calls) : calls[i].outcome = "fail" }
\* server.js resolved a file / index.js resolved a file it may attach
ServerFound == variant = "server" /\ branch = "get" /\ fileInfo.found
IndexAttach ==
    variant = "index" /\ branch = "get" /\ fileInfo.found
    /\ fileInfo.size <= TELEGRAM_FILE_LIMIT

C4_NotFoundReply ==
    (Done /\ Message /\ branch = "get" /\ ~fileInfo.found) =>
        /\ Docs = {}
        /\ Len(calls) = 1
        /\ calls[1].api = "sendMessage"
        /\ calls[1].kind = "notfound"

\* C5: a /get that resolves a file above the size limit is answered with a
\* text reply carrying the file's download link, and no document is sent.
C5_LargeFileLink ==
    (branch = "get" /\ fileInfo.found /\ fileInfo.size > TELEGRAM_FILE_LIMIT) =>
        /\ Docs = {}
        /\ Done =>
               \E i \in 1..Len(calls) :
                   /\ calls[i].api = "sendMessage"
                   /\ calls[i].kind \in {"link", "failed", "toolarge"}
                   /\ calls[i].arg = fileInfo.filename

Min(S) == CHOOSE x \in S : \A y \in S : x <= y
\* The files of the listing whose displayName / storageName contains the
\* fragment, letter case ignored, and whose storageName contains it as it is
ByDisplayName(f) ==
    { i \in 1..Len(store) :
        includes(toLowerCase(displayName(store[i].name)), toLowerCase(f)) }
ByStorageName(f) ==
    { i \in 1..Len(store) : includes(toLowerCase(store[i].name), toLowerCase(f)) }
ByExactStorageName(f) ==
    { i \in 1..Len(store) : includes(store[i].name, f) }
Resolved(r, S) ==
    IF S = {} THEN r = NoFile
    ELSE r = [found |-> TRUE, filename |-> store[Min(S)].name,
              size |-> store[Min(S)].size]

C7_UniqueStorageNames ==
    [][\A t \in Timestamps, n \in OriginalNames, z \in UploadSizes :
           (apiResp' = [op |-> "upload", status |-> 200]
                /\ UploadFile(t, n, z, TRUE, TRUE)) =>
               /\ storageName(t, n) \notin Names(store)
               /\ Len(store') = Len(store) + 1]_vars

\* The command table of the spec, and the table server.js implements
SpecTable(t) ==
    CASE t = START \/ t = HELP -> "help"
      [] t = LIST -> "list"
      [] t = COUNT -> "count"
      [] startsWith(t, SEARCH) -> "search"
      [] startsWith(t, GET) -> "get"
      [] OTHER -> "unknown"
ServerTable(t) ==
    CASE t = START \/ t = HELP -> "help"
      [] t = LIST \/ t = FILES -> "list"
      [] t = COUNT -> "count"
      [] startsWith(t, GET) -> "get"
      [] OTHER -> "unknown"
Folded == IF req.hasText THEN toLowerCase(trim(req.text)) ELSE <<>>
Echo(t) == { [api |-> "sendMessage", kind |-> "unknown", arg |-> t, outcome |-> o] :
             o \in Outcomes }

C9_DeleteFirstMatch ==
    [][\A f \in Fragments :
           (apiResp'.op = "delete" /\ handler' = handler /\ DeleteFile(f)) =>
               IF ByStorageName(f) = {}
               THEN store' = store /\ apiResp'.status = 404
               ELSE LET k == Min(ByStorageName(f))
                    IN  /\ apiResp'.status = 200
                        /\ Len(store') = Len(store) - 1
                        /\ \A i \in 1..(k - 1) : store'[i] = store[i]
                        /\ \A i \in (k + 1)..Len(store) : store'[i - 1] = store[i]]_vars

\* C9 witness: a DELETE succeeded and another file is still stored.
C9_Witness ==
    variant = "server" /\ apiResp = [op |-> "delete", status |-> 200] /\ Len(store) = 1

\* C10: a delivery gets at most one status response, exactly one once the
\* handler has ended, none while it awaits a call, and none before every
\* outbound call it started has settled.
C10_OneResponseAfterCalls ==
    /\ Len(responses) <= 1
    /\ Done => Len(responses) = 1
    /\ pc = "await" => (responses = <<>> /\ LastCall.outcome = "pending")
    /\ responses # <<>> => \A i \in 1..Len(calls) : calls[i].outcome # "pending"
    /\ \A i \in 1..(Len(calls) - 1) : calls[i].outcome # "pending"

\* C10 witness: the catch path of server.js after the document send and both
\* fallbacks have failed.
C10_Witness ==
    Done /\ ServerFound /\ Len(calls) = 4 /\ Failed = {2, 3, 4} /\ responses = <<500>>

Present(files) == fileInfo.filename \in Names(files)

====
